---- MODULE Spec2Model ----
(***************************************************************************)
(* Incident review workflow of safe-neighborhood-watch: the "incidents"    *)
(* table behind the supabase client, the public page (Index + ReportForm)  *)
(* and the admin dashboard (Admin), as a state machine.                    *)
(***************************************************************************)
EXTENDS Integers, Sequences, FiniteSets, TLC

\* ------------------------------------------------------------------ bounds
\* Number of incident ids the store ever assigns in Spec.
MaxIncidents == 2
\* Largest server timestamp in Spec.
MaxClock == 3
\* Largest table the listing specification SpecList starts from.
MaxRows == 17

\* ------------------------------------------------------------- constants
\* useState<number>(8)
perPage == 8

None == "none"
Users == {"u1", "u2"}
AdminSessions == {1, 2}

\* The SelectItem values of the report form.
TypeOptions ==
  {"suspicious", "theft", "vandalism", "assault", "noise", "emergency", "road_hazard", "other"}

Statuses == {"pending", "approved", "rejected"}

\* STATUS_TABS keys.
StatusTabs == {"all", "pending", "approved", "rejected"}

\* --------------------------------------------------------------- text
\* A text is a sequence of one-character strings.
Empty == <<>>

LowerChar(c) ==
  CASE c = "A" -> "a"
    [] c = "B" -> "b"
    [] c = "I" -> "i"
    [] OTHER -> c

\* String.prototype.trim
RECURSIVE TrimLeft(_)
TrimLeft(t) == IF t # <<>> /\ Head(t) = " " THEN TrimLeft(Tail(t)) ELSE t

RECURSIVE TrimRight(_)
TrimRight(t) ==
  IF t # <<>> /\ t[Len(t)] = " " THEN TrimRight(SubSeq(t, 1, Len(t) - 1)) ELSE t

Trim(t) == TrimRight(TrimLeft(t))

\* `%${search.trim()}%`
IlikePattern(search) == <<"%">> \o Trim(search) \o <<"%">>

\* text ILIKE pattern: "%" matches any run of characters, "_" any one
\* character, every other character matches itself ignoring case.
RECURSIVE Ilike(_, _)
Ilike(text, pat) ==
  IF pat = <<>> THEN text = <<>>
  ELSE IF Head(pat) = "%"
       THEN Ilike(text, Tail(pat)) \/ (text # <<>> /\ Ilike(Tail(text), pat))
  ELSE /\ text # <<>>
       /\ (Head(pat) = "_" \/ LowerChar(Head(pat)) = LowerChar(Head(text)))
       /\ Ilike(Tail(text), Tail(pat))

\* ------------------------------------------------------- the incidents table
\* The table is a function from the ids in use to rows
\* [id, user_id, type, title, description, location, status, created_at, updated_at].

\* insert-one: the store assigns id and created_at and defaults status to pending.
StoreInsert(tbl, id, payload, t) ==
  (id :> (payload @@ [id |-> id, status |-> "pending", created_at |-> t, updated_at |-> t]))
    @@ tbl

\* update-by-filter: every row the filter matched takes the patch; updated_at
\* is refreshed.
StoreUpdate(tbl, matched, patch, t) ==
  [i \in DOMAIN tbl |->
     IF i \in matched THEN patch @@ ([updated_at |-> t] @@ tbl[i]) ELSE tbl[i]]

\* delete-by-filter: hard delete of every row the filter matched.
StoreDelete(tbl, matched) ==
  [i \in DOMAIN tbl \ matched |-> tbl[i]]

\* The store breaks ties of a sort by insertion order; ids are assigned in
\* insertion order.
InsertionOrder(a, b) == a.id < b.id

\* .order("created_at", { ascending })
Before(a, b, ascending) ==
  IF a.created_at # b.created_at
  THEN IF ascending THEN a.created_at < b.created_at ELSE a.created_at > b.created_at
  ELSE InsertionOrder(a, b)

\* The ids of the table in ids, in the order of their rows.
RECURSIVE OrderedIds(_, _, _)
OrderedIds(tbl, ids, ascending) ==
  IF ids = {} THEN <<>>
  ELSE LET m == CHOOSE x \in ids : \A y \in ids : y = x \/ Before(tbl[x], tbl[y], ascending)
       IN <<m>> \o OrderedIds(tbl, ids \ {m}, ascending)

\* The rows of the table with their id in ids, ordered.
Ordered(tbl, ids, ascending) ==
  LET o == OrderedIds(tbl, ids, ascending) IN [k \in 1..Len(o) |-> tbl[o[k]]]

\* .range(from, to): the rows at the 0-based positions from..to, both included.
Range(rows, from, to) ==
  IF from >= Len(rows) THEN <<>>
  ELSE SubSeq(rows, from + 1, IF to + 1 < Len(rows) THEN to + 1 ELSE Len(rows))

\* ---------------------------------------------------- Index: public page
\* Mutant of FeedMatches: the .eq("status", "approved") filter is left out.
FeedMatchesAnyStatus(row) == TRUE

\* .eq("status", "approved")
FeedMatches(row) == row.status = "approved"

\* select("*").eq("status", "approved").order("created_at", {ascending: false})
FeedQuery(tbl) == Ordered(tbl, {i \in DOMAIN tbl : FeedMatches(tbl[i])}, FALSE)

\* (data || []).map(item => ({id, type, title, description, location, timestamp}))
FeedItem(item) ==
  [id |-> item.id, type |-> item.type, title |-> item.title,
   description |-> item.description, location |-> item.location,
   timestamp |-> item.created_at]

FeedItems(data) == [k \in 1..Len(data) |-> FeedItem(data[k])]

\* IncidentCard's typeConfig: the label of each type it has an entry for.
typeConfig ==
  [suspicious |-> "Suspicious Activity", theft |-> "Theft", vandalism |-> "Vandalism",
   noise |-> "Noise Complaint", emergency |-> "Emergency", other |-> "Other"]

\* IncidentCard: the badge label and the texts of the card; reading color and
\* label of a missing typeConfig entry throws a TypeError.
IncidentCard(incident) ==
  IF incident.type \in DOMAIN typeConfig
  THEN [error |-> None, badge |-> typeConfig[incident.type], title |-> incident.title,
        description |-> incident.description, location |-> incident.location]
  ELSE [error |-> "TypeError"]

\* Mutant of FormIncomplete: the location field is not checked.
FormIncompleteNoLocation(formData) ==
  \/ formData.type = ""
  \/ formData.title = Empty
  \/ formData.description = Empty

\* ReportForm.handleSubmit: the check that toasts "Please fill in all fields".
FormIncomplete(formData) ==
  \/ formData.type = ""
  \/ formData.title = Empty
  \/ formData.description = Empty
  \/ formData.location = Empty

\* Mutant of Unauthenticated: the guard is left out.
UnauthenticatedNever(user) == FALSE

\* handleNewReport: if (!user)
Unauthenticated(user) == user = None

\* Mutant of InsertPayload: the row is filed as already approved.
InsertPayloadApproved(user, report) ==
  [user_id |-> user, type |-> report.type, title |-> report.title,
   description |-> report.description, location |-> report.location,
   status |-> "approved"]

\* handleNewReport: the row handed to insert().
InsertPayload(user, report) ==
  [user_id |-> user, type |-> report.type, title |-> report.title,
   description |-> report.description, location |-> report.location]

\* ------------------------------------------------ Admin: dashboard queries
\* Mutant of MatchesStatus: the status filter is never applied.
MatchesStatusIgnored(row, statusFilter) == TRUE

\* if (statusFilter !== "all") query.eq("status", statusFilter)
MatchesStatus(row, statusFilter) ==
  statusFilter = "all" \/ row.status = statusFilter

\* if (search.trim()) query.or(title.ilike, description.ilike, location.ilike)
MatchesSearch(row, search) ==
  \/ Trim(search) = Empty
  \/ Ilike(row.title, IlikePattern(search))
  \/ Ilike(row.description, IlikePattern(search))
  \/ Ilike(row.location, IlikePattern(search))

\* The ids of the rows the dashboard's filters keep.
Filtered(tbl, statusFilter, search) ==
  {i \in DOMAIN tbl : MatchesStatus(tbl[i], statusFilter) /\ MatchesSearch(tbl[i], search)}

\* .range((page - 1) * perPage, page * perPage - 1)
RangeFrom(page) == (page - 1) * perPage

\* Mutant of RangeTo: the inclusive upper end is taken one too far.
RangeToExclusive(page) == page * perPage

RangeTo(page) == page * perPage - 1

\* The full result of the dashboard's filter and order, before .range().
FullResult(tbl, statusFilter, search, sortDesc) ==
  Ordered(tbl, Filtered(tbl, statusFilter, search), ~sortDesc)

\* fetchIncidents: { data, count } of the query built from the session's state.
AdminQuery(tbl, statusFilter, search, sortDesc, page) ==
  [data |-> Range(FullResult(tbl, statusFilter, search, sortDesc),
                  RangeFrom(page), RangeTo(page)),
   count |-> Cardinality(Filtered(tbl, statusFilter, search))]

\* Mutant of UpdatePatch: the patch carries "approved" whatever was asked.
UpdatePatchApproved(newStatus) == [status |-> "approved"]

\* .update({ status: newStatus })
UpdatePatch(newStatus) == [status |-> newStatus]

\* Mutant of IdMatches: the .eq("id", id) filter is left out.
IdMatchesAny(row, id) == TRUE

\* .eq("id", id)
IdMatches(row, id) == row.id = id

\* Mutant of DeleteMatches: the filter matches no row.
DeleteMatchesNone(row, id) == FALSE

\* deleteIncident: .delete().eq("id", id)
DeleteMatches(row, id) == row.id = id

\* .in("id", ids)
IdIn(row, ids) == row.id \in ids

\* ------------------------------------------------------------------ state
VARIABLES
  store,   \* the incidents table
  nextId,  \* the next id the store assigns
  now,     \* the store's clock: it advances with every write
  index,   \* the public page: useAuth's user, the route, Index's component state
  admin,   \* per admin session: useAuth's values and Admin's component state
  last     \* what the last handler run did: the request it sent, the toasts it raised

vars == <<store, nextId, now, index, admin, last>>

\* Admin's useState initial values.
AdminPageInit ==
  [incidents |-> <<>>, loading |-> TRUE, statusFilter |-> "all", search |-> Empty,
   page |-> 1, totalCount |-> 0, sortDesc |-> TRUE]

\* A session that has not opened the dashboard; useAuth is still resolving.
\* inflight holds the queries of the fetchIncidents calls awaiting their
\* response.
AdminSessionInit ==
  [mounted |-> FALSE, effects |-> FALSE, user |-> None, isAdmin |-> FALSE, isLoading |-> TRUE,
   inflight |-> {}]
    @@ AdminPageInit

\* Index's useState initial values, nobody signed in.
IndexInit ==
  [user |-> None, route |-> "/", showReportForm |-> FALSE, incidents |-> <<>>,
   loadingIncidents |-> TRUE]

\* A handler run: request is the store operation it sent (None when it sent
\* nothing), toast the titles it handed to toast() in order, sonner the message
\* ReportForm handed to sonner, removed the number of incidents a bulk delete
\* said it removed (0 when none was said), error whether the store answered the
\* insert, update or delete of the run, or the select of the public feed, with
\* an error.
Outcome(request, toast, sonner) ==
  [request |-> request, toast |-> toast, sonner |-> sonner, removed |-> 0, error |-> FALSE]

\* A handler run whose request the store answered with an error.
StoreError(request, toast, sonner) ==
  [Outcome(request, toast, sonner) EXCEPT !.error = TRUE]

\* Mutant of ResultTitle: the error of the response is not looked at.
ResultTitleDone(error, done) == done

\* if (error) toast({ title: "Error", ... }) else toast({ title: done, ... })
ResultTitle(error, done) == IF error THEN "Error" ELSE done

Nothing == Outcome(None, <<>>, None)

\* What the report form can hold when it is submitted: the Select's value is ""
\* until chosen, and onValueChange stores whatever string it is handed.
TypeInputs == {"", "theft", "bogus"}
TitleInputs == {Empty, <<"B", "i">>}
DescriptionInputs == {Empty, <<"a">>}
LocationInputs == {Empty, <<"5">>}

FormInputs ==
  [type : TypeInputs, title : TitleInputs, description : DescriptionInputs,
   location : LocationInputs]

\* ------------------------------------------------------- Index: handlers
\* useEffect(() => { fetchIncidents() }, []) on a fresh mount of Index.
IndexMount ==
  /\ \E ok \in BOOLEAN :
       /\ index' = [index EXCEPT !.route = "/", !.showReportForm = FALSE,
                                 !.incidents = IF ok THEN FeedItems(FeedQuery(store)) ELSE <<>>,
                                 !.loadingIncidents = FALSE]
       /\ last' = IF ok THEN Outcome("select", <<>>, None)
                  ELSE StoreError("select", <<>>, None)
  /\ UNCHANGED <<store, nextId, now, admin>>

\* The Sign In button: navigate("/auth").
GoToAuth ==
  /\ index.route = "/"
  /\ index.user = None
  /\ index' = [index EXCEPT !.route = "/auth", !.showReportForm = FALSE]
  /\ UNCHANGED <<store, nextId, now, admin, last>>

\* The auth collaborator signs a user in on the auth page.
SignIn(u) ==
  /\ index.route = "/auth"
  /\ index.user = None
  /\ index' = [index EXCEPT !.user = u]
  /\ UNCHANGED <<store, nextId, now, admin, last>>

\* The session ends: signOut(), from this page or from another tab.
SessionEnds ==
  /\ index.user # None
  /\ index' = [index EXCEPT !.user = None]
  /\ UNCHANGED <<store, nextId, now, admin, last>>

\* Report Incident button: setShowReportForm(true), rendered when user is set.
OpenReportForm ==
  /\ index.route = "/"
  /\ index.user # None
  /\ ~index.showReportForm
  /\ index' = [index EXCEPT !.showReportForm = TRUE]
  /\ UNCHANGED <<store, nextId, now, admin, last>>

\* ReportForm's X and Cancel buttons: onClose.
CloseReportForm ==
  /\ index.showReportForm
  /\ index' = [index EXCEPT !.showReportForm = FALSE]
  /\ UNCHANGED <<store, nextId, now, admin, last>>

\* ReportForm.handleSubmit with Index.handleNewReport as onSubmit.
HandleSubmit(formData) ==
  /\ index.showReportForm
  /\ IF FormIncomplete(formData)
     THEN /\ last' = Outcome(None, <<>>, "Please fill in all fields")
          /\ UNCHANGED <<store, nextId, now, index>>
     ELSE IF Unauthenticated(index.user)
     THEN /\ index' = [index EXCEPT !.route = "/auth", !.showReportForm = FALSE]
          /\ last' = Outcome(None, <<"Authentication required">>,
                             "Incident reported successfully")
          /\ UNCHANGED <<store, nextId, now>>
     ELSE /\ nextId <= MaxIncidents
          /\ now < MaxClock
          /\ \E ok \in BOOLEAN :
               /\ IF ok
                  THEN /\ store' = StoreInsert(store, nextId,
                                               InsertPayload(index.user, formData), now + 1)
                       /\ nextId' = nextId + 1
                       /\ now' = now + 1
                  ELSE UNCHANGED <<store, nextId, now>>
               /\ last' = IF ok
                          THEN Outcome("insert", <<ResultTitle(FALSE, "Report submitted")>>,
                                       "Incident reported successfully")
                          ELSE StoreError("insert", <<ResultTitle(TRUE, "Report submitted")>>,
                                          "Incident reported successfully")
          /\ index' = [index EXCEPT !.showReportForm = FALSE]
  /\ UNCHANGED admin

\* ------------------------------------------------------- Admin: handlers
Displayed(s) == {admin[s].incidents[k] : k \in 1..Len(admin[s].incidents)}

\* The rows are rendered when the page is mounted and not loading.
RowsShown(s) == IF admin[s].mounted /\ ~admin[s].loading THEN Displayed(s) ELSE {}

\* stats: the per-status counts of the overview cards, and the total.
Stats(a) ==
  [pending |-> Cardinality({k \in 1..Len(a.incidents) : a.incidents[k].status = "pending"}),
   approved |-> Cardinality({k \in 1..Len(a.incidents) : a.incidents[k].status = "approved"}),
   rejected |-> Cardinality({k \in 1..Len(a.incidents) : a.incidents[k].status = "rejected"}),
   total |-> a.totalCount]

\* The count shown beside a status tab.
TabCount(a, key) ==
  Cardinality({k \in 1..Len(a.incidents) : key = "all" \/ a.incidents[k].status = key})

\* fetchIncidents: the session after the response and the toasts raised, for
\* either outcome of the query.
FetchOutcomes(a, tbl) ==
  LET q == AdminQuery(tbl, a.statusFilter, a.search, a.sortDesc, a.page)
  IN {[a |-> [a EXCEPT !.incidents = q.data, !.totalCount = q.count, !.loading = FALSE],
       toast |-> <<>>],
      [a |-> [a EXCEPT !.loading = FALSE], toast |-> <<"Error">>]}

\* useAuth finishes loading: an admin is signed in, or nobody is.
AuthResolves(s) ==
  /\ admin[s].isLoading
  /\ \E who \in {"admin", None} :
       admin' = [admin EXCEPT ![s] =
                   [@ EXCEPT !.isLoading = FALSE,
                             !.user = who,
                             !.isAdmin = (who = "admin"),
                             !.effects = @ \/ admin[s].mounted]]
  /\ UNCHANGED <<store, nextId, now, index, last>>

\* The admin role is withdrawn from the signed-in user.
RoleRevoked(s) ==
  /\ admin[s].isAdmin
  /\ admin' = [admin EXCEPT ![s] =
                 [@ EXCEPT !.isAdmin = FALSE, !.user = "user",
                           !.effects = @ \/ admin[s].mounted]]
  /\ UNCHANGED <<store, nextId, now, index, last>>

\* The session opens /admin: first render of Admin, its effects still to run.
AdminMount(s) ==
  /\ ~admin[s].mounted
  /\ admin' = [admin EXCEPT ![s] =
                 AdminPageInit @@ [@ EXCEPT !.mounted = TRUE, !.effects = TRUE]]
  /\ UNCHANGED <<store, nextId, now, index, last>>

\* The back arrow: navigate("/") unmounts Admin.
AdminLeave(s) ==
  /\ admin[s].mounted
  /\ admin' = [admin EXCEPT ![s] =
                 AdminPageInit @@ [@ EXCEPT !.mounted = FALSE, !.effects = FALSE]]
  /\ UNCHANGED <<store, nextId, now, index, last>>

\* The two effects of Admin after a render that changed their dependencies:
\* route protection, then the fetch.
AdminEffects(s) ==
  /\ admin[s].mounted
  /\ admin[s].effects
  /\ IF ~admin[s].isLoading /\ (admin[s].user = None \/ ~admin[s].isAdmin)
     THEN /\ admin' = [admin EXCEPT ![s] =
                         AdminPageInit @@ [@ EXCEPT !.mounted = FALSE, !.effects = FALSE]]
          /\ last' = Nothing
     ELSE IF admin[s].isAdmin
     THEN \E f \in FetchOutcomes([admin[s] EXCEPT !.effects = FALSE], store) :
            /\ admin' = [admin EXCEPT ![s] = f.a]
            /\ last' = Outcome("select", f.toast, None)
     ELSE /\ admin' = [admin EXCEPT ![s].effects = FALSE]
          /\ last' = Nothing
  /\ UNCHANGED <<store, nextId, now, index>>

\* The fetch effect of a signed-in admin, up to the await of fetchIncidents:
\* setLoading(true) and the query is sent with the filter, search, sort and
\* page of this render.
FetchIssue(s) ==
  /\ admin[s].mounted
  /\ admin[s].effects
  /\ ~admin[s].isLoading
  /\ admin[s].isAdmin
  /\ admin' = [admin EXCEPT ![s] =
                 [@ EXCEPT !.effects = FALSE, !.loading = TRUE,
                           !.inflight = @ \cup {[statusFilter |-> admin[s].statusFilter,
                                                 search |-> admin[s].search,
                                                 sortDesc |-> admin[s].sortDesc,
                                                 page |-> admin[s].page]}]]
  /\ UNCHANGED <<store, nextId, now, index, last>>

\* fetchIncidents from the await on, for the response to query q: the rows and
\* the count of q replace the list, or the Error toast is raised; then
\* setLoading(false).
FetchResponse(s, q) ==
  /\ admin[s].mounted
  /\ q \in admin[s].inflight
  /\ \E ok \in BOOLEAN :
       LET r == AdminQuery(store, q.statusFilter, q.search, q.sortDesc, q.page)
       IN IF ok
          THEN /\ admin' = [admin EXCEPT ![s] =
                              [@ EXCEPT !.incidents = r.data, !.totalCount = r.count,
                                        !.loading = FALSE, !.inflight = @ \ {q}]]
               /\ last' = Outcome("select", <<>>, None)
          ELSE /\ admin' = [admin EXCEPT ![s] =
                              [@ EXCEPT !.loading = FALSE, !.inflight = @ \ {q}]]
               /\ last' = StoreError("select", <<"Error">>, None)
  /\ UNCHANGED <<store, nextId, now, index>>

\* fetchIncidents of the second copy, which has no try/catch: as FetchOutcomes,
\* or the awaited query throws and setLoading(false) is never reached.
FetchOutcomesSecondCopy(a, tbl) ==
  FetchOutcomes(a, tbl) \cup {[a |-> [a EXCEPT !.loading = TRUE], toast |-> <<>>]}

\* useAuth finishes loading under the second copy: the render that follows
\* re-runs route protection, whose dependencies are user, isAdmin and isLoading;
\* the fetch effect depends on the filter, page, search and sort only and is not
\* re-run.
AuthResolvesSecondCopy(s) ==
  /\ admin[s].isLoading
  /\ \E who \in {"admin", None} :
       admin' = [admin EXCEPT ![s] =
                   IF admin[s].mounted /\ who = None
                   THEN AdminPageInit @@ [@ EXCEPT !.isLoading = FALSE, !.user = who,
                                                   !.isAdmin = FALSE,
                                                   !.mounted = FALSE, !.effects = FALSE]
                   ELSE [@ EXCEPT !.isLoading = FALSE, !.user = who,
                                  !.isAdmin = (who = "admin")]]
  /\ UNCHANGED <<store, nextId, now, index, last>>

\* The two effects of the second copy after the first render or a render that
\* changed the filter, page, search or sort: route protection, then
\* if (isAdmin) fetchIncidents().
AdminEffectsSecondCopy(s) ==
  /\ admin[s].mounted
  /\ admin[s].effects
  /\ IF ~admin[s].isLoading /\ (admin[s].user = None \/ ~admin[s].isAdmin)
     THEN /\ admin' = [admin EXCEPT ![s] =
                         AdminPageInit @@ [@ EXCEPT !.mounted = FALSE, !.effects = FALSE]]
          /\ last' = Nothing
     ELSE IF admin[s].isAdmin
     THEN \E f \in FetchOutcomesSecondCopy([admin[s] EXCEPT !.effects = FALSE], store) :
            /\ admin' = [admin EXCEPT ![s] = f.a]
            /\ last' = Outcome("select", f.toast, None)
     ELSE /\ admin' = [admin EXCEPT ![s].effects = FALSE]
          /\ last' = Nothing
  /\ UNCHANGED <<store, nextId, now, index>>

\* Mutant of Declined: a declined dialog does not stop the handler.
DeclinedNever(confirmed) == FALSE

\* if (!confirm(...)) return, with the answer given to the dialog.
Declined(confirmed) == ~confirmed

\* updateIncidentStatus, from the Approve and Reject buttons of a pending row,
\* with the answer given to its confirm dialog.
UpdateIncidentStatusAnswered(s, id, newStatus, confirmed) ==
  /\ \E r \in RowsShown(s) : r.id = id /\ r.status = "pending"
  /\   IF Declined(confirmed)
       THEN /\ last' = Nothing
            /\ UNCHANGED <<store, now, admin>>
       ELSE /\ now < MaxClock
            /\ \E ok \in BOOLEAN :
                 IF ok
                 THEN /\ store' = StoreUpdate(store,
                                              {i \in DOMAIN store : IdMatches(store[i], id)},
                                              UpdatePatch(newStatus), now + 1)
                      /\ now' = now + 1
                      /\ \E f \in FetchOutcomes(admin[s], store') :
                           /\ admin' = [admin EXCEPT ![s] = f.a]
                           /\ last' = Outcome("update",
                                           <<ResultTitle(FALSE, "Success")>> \o f.toast, None)
                 ELSE /\ last' = StoreError("update", <<ResultTitle(TRUE, "Success")>>, None)
                      /\ UNCHANGED <<store, now, admin>>
  /\ UNCHANGED <<nextId, index>>

UpdateIncidentStatus(s, id, newStatus) ==
  \E confirmed \in BOOLEAN : UpdateIncidentStatusAnswered(s, id, newStatus, confirmed)

LastRowNever(incidents, page) == FALSE

\* The deleted row was the only one displayed, on a page after the first.
LastRowOfLaterPage(incidents, page) == Len(incidents) = 1 /\ page > 1

\* deleteIncident, from the Delete button of an approved row, with the answer
\* given to its confirm dialog.
DeleteIncidentAnswered(s, id, confirmed) ==
  /\ \E r \in RowsShown(s) : r.id = id /\ r.status = "approved"
  /\   IF Declined(confirmed)
       THEN /\ last' = Nothing
            /\ UNCHANGED <<store, admin>>
       ELSE \E ok \in BOOLEAN :
              IF ok
              THEN /\ store' = StoreDelete(store,
                                              {i \in DOMAIN store : DeleteMatches(store[i], id)})
                   /\ IF LastRowOfLaterPage(admin[s].incidents, admin[s].page)
                      THEN /\ admin' = [admin EXCEPT ![s] =
                                          [@ EXCEPT !.page = @ - 1, !.effects = TRUE]]
                           /\ last' = Outcome("delete", <<ResultTitle(FALSE, "Deleted")>>, None)
                      ELSE \E f \in FetchOutcomes(admin[s], store') :
                             /\ admin' = [admin EXCEPT ![s] = f.a]
                             /\ last' = Outcome("delete",
                                                <<ResultTitle(FALSE, "Deleted")>> \o f.toast,
                                                None)
              ELSE /\ last' = StoreError("delete", <<ResultTitle(TRUE, "Deleted")>>, None)
                   /\ UNCHANGED <<store, admin>>
  /\ UNCHANGED <<nextId, now, index>>

DeleteIncident(s, id) == \E confirmed \in BOOLEAN : DeleteIncidentAnswered(s, id, confirmed)

\* deleteIncident of the second copy of Admin, from the Delete button it renders
\* for every row: the list is refetched after every delete.
DeleteIncidentSecondCopy(s, id) ==
  /\ \E r \in RowsShown(s) : r.id = id
  /\ \E confirmed \in BOOLEAN :
       IF Declined(confirmed)
       THEN /\ last' = Nothing
            /\ UNCHANGED <<store, admin>>
       ELSE \E ok \in BOOLEAN :
              IF ok
              THEN /\ store' = StoreDelete(store,
                                           {i \in DOMAIN store : DeleteMatches(store[i], id)})
                   /\ \E f \in FetchOutcomes(admin[s], store') :
                        /\ admin' = [admin EXCEPT ![s] = f.a]
                        /\ last' = Outcome("delete",
                                           <<ResultTitle(FALSE, "Deleted")>> \o f.toast, None)
              ELSE /\ last' = StoreError("delete", <<ResultTitle(TRUE, "Deleted")>>, None)
                   /\ UNCHANGED <<store, admin>>
  /\ UNCHANGED <<nextId, now, index>>

\* The ids Delete Approved (page) hands to bulkDeleteSelected.
ApprovedOnPage(s) == {r.id : r \in {x \in Displayed(s) : x.status = "approved"}}

\* Mutant of NoIds: the empty id set is not turned away.
NoIdsNever(ids) == FALSE

\* bulkDeleteSelected: if (ids.length === 0) return
NoIds(ids) == ids = {}

\* The Delete Approved (page) button and bulkDeleteSelected, with the answers
\* given to the button's confirm dialog and to bulkDeleteSelected's.
DeleteApprovedPageAnswered(s, confirmedPage, confirmed) ==
  /\ admin[s].mounted
  /\   IF Declined(confirmedPage) \/ NoIds(ApprovedOnPage(s)) \/ Declined(confirmed)
       THEN /\ last' = Nothing
            /\ UNCHANGED <<store, admin>>
       ELSE \E ok \in BOOLEAN :
              IF ok
              THEN /\ store' = StoreDelete(store,
                                              {i \in DOMAIN store :
                                                 IdIn(store[i], ApprovedOnPage(s))})
                   /\ \E f \in FetchOutcomes(admin[s], store') :
                        /\ admin' = [admin EXCEPT ![s] = f.a]
                        /\ last' = [Outcome("delete",
                                              <<ResultTitle(FALSE, "Deleted")>> \o f.toast,
                                              None)
                                      EXCEPT !.removed = Cardinality(ApprovedOnPage(s))]
              ELSE /\ last' = StoreError("delete", <<ResultTitle(TRUE, "Deleted")>>, None)
                   /\ UNCHANGED <<store, admin>>
  /\ UNCHANGED <<nextId, now, index>>

DeleteApprovedPage(s) ==
  \E confirmedPage \in BOOLEAN, confirmed \in BOOLEAN :
    DeleteApprovedPageAnswered(s, confirmedPage, confirmed)

\* Math.max(1, Math.ceil((totalCount || 0) / perPage))
TotalPages(totalCount) ==
  IF (totalCount + perPage - 1) \div perPage > 1
  THEN (totalCount + perPage - 1) \div perPage
  ELSE 1

\* The second copy of Admin: Math.ceil(totalCount / perPage)
TotalPagesSecondCopy(totalCount) == (totalCount + perPage - 1) \div perPage

\* A render after state changes: the fetch effect runs again when one of its
\* dependencies (statusFilter, page, search, sortDesc) changed.
Rerender(a, b) ==
  [b EXCEPT !.effects =
     \/ a.effects
     \/ <<a.statusFilter, a.page, a.search, a.sortDesc>>
          # <<b.statusFilter, b.page, b.search, b.sortDesc>>]

\* The sidebar's All Reports, Pending, Approved and Rejected buttons:
\* setStatusFilter(key).
SidebarStatus(s, key) ==
  /\ admin[s].mounted
  /\ admin' = [admin EXCEPT ![s] = Rerender(@, [@ EXCEPT !.statusFilter = key])]
  /\ UNCHANGED <<store, nextId, now, index, last>>

\* The status tabs and the Show Pending / Show Approved quick actions:
\* setStatusFilter(key); setPage(1).
TabStatus(s, key) ==
  /\ admin[s].mounted
  /\ admin' = [admin EXCEPT ![s] =
                 Rerender(@, [@ EXCEPT !.statusFilter = key, !.page = 1])]
  /\ UNCHANGED <<store, nextId, now, index, last>>

\* The search box: setSearch(e.target.value); setPage(1).
SearchChange(s, value) ==
  /\ admin[s].mounted
  /\ admin' = [admin EXCEPT ![s] = Rerender(@, [@ EXCEPT !.search = value, !.page = 1])]
  /\ UNCHANGED <<store, nextId, now, index, last>>

\* The Newest / Oldest button: setSortDesc(!sortDesc).
ToggleSort(s) ==
  /\ admin[s].mounted
  /\ admin' = [admin EXCEPT ![s] = Rerender(@, [@ EXCEPT !.sortDesc = ~@])]
  /\ UNCHANGED <<store, nextId, now, index, last>>

\* Prev, disabled when page <= 1: setPage(p => Math.max(1, p - 1)).
PrevPage(s) ==
  /\ admin[s].mounted
  /\ admin[s].page > 1
  /\ admin' = [admin EXCEPT ![s] =
                 Rerender(@, [@ EXCEPT !.page = IF @ - 1 > 1 THEN @ - 1 ELSE 1])]
  /\ UNCHANGED <<store, nextId, now, index, last>>

\* Next, disabled when page >= totalPages: setPage(p => Math.min(totalPages, p + 1)).
NextPage(s) ==
  /\ admin[s].mounted
  /\ admin[s].page < TotalPages(admin[s].totalCount)
  /\ admin' = [admin EXCEPT ![s] =
                 Rerender(@, [@ EXCEPT !.page =
                                 IF @ + 1 < TotalPages(admin[s].totalCount)
                                 THEN @ + 1
                                 ELSE TotalPages(admin[s].totalCount)])]
  /\ UNCHANGED <<store, nextId, now, index, last>>

\* ---------------------------------------------------------- specifications
\* The handlers of the public page.
IndexNext ==
  \/ IndexMount
  \/ GoToAuth
  \/ \E u \in Users : SignIn(u)
  \/ SessionEnds
  \/ OpenReportForm
  \/ CloseReportForm
  \/ \E formData \in FormInputs : HandleSubmit(formData)

\* The handlers of the admin session s.
AdminNext(s) ==
  \/ AuthResolves(s)
  \/ RoleRevoked(s)
  \/ AdminMount(s)
  \/ AdminLeave(s)
  \/ AdminEffects(s)
  \/ \E id \in 1..MaxIncidents, newStatus \in {"approved", "rejected"} :
       UpdateIncidentStatus(s, id, newStatus)
  \/ \E id \in 1..MaxIncidents : DeleteIncident(s, id)
  \/ DeleteApprovedPage(s)

\* Spec: the review workflow. A reporter is signed in on the public page and
\* files reports; two admin sessions work the dashboard.
ReviewForms == {f \in FormInputs : f.type = "theft" /\ f.description # Empty /\ f.location # Empty}

Init ==
  /\ store = <<>>
  /\ nextId = 1
  /\ now = 0
  /\ index = [IndexInit EXCEPT !.user = "u1"]
  /\ admin = [s \in AdminSessions |-> AdminSessionInit]
  /\ last = Nothing

Next ==
  \/ OpenReportForm
  \/ \E formData \in ReviewForms : HandleSubmit(formData)
  \/ \E s \in AdminSessions : AdminNext(s)

Spec == Init /\ [][Next]_vars

\* SpecPublic: the public page on its own, with every form input and users
\* signing in and out.
InitPublic ==
  /\ store = <<>>
  /\ nextId = 1
  /\ now = 0
  /\ index = IndexInit
  /\ admin = [s \in AdminSessions |-> AdminSessionInit]
  /\ last = Nothing

NextPublic == IndexNext

SpecPublic == InitPublic /\ [][NextPublic]_vars

\* SpecFeed: the public feed under moderation. A reporter is signed in and
\* files reports, one signed-in admin reviews and deletes them, and the public
\* page is loaded at any moment.
InitFeed ==
  /\ store = <<>>
  /\ nextId = 1
  /\ now = 0
  /\ index = [IndexInit EXCEPT !.user = "u1"]
  /\ admin = [s \in AdminSessions |->
                IF s = 1
                THEN [AdminSessionInit EXCEPT !.user = "admin", !.isAdmin = TRUE,
                                              !.isLoading = FALSE]
                ELSE AdminSessionInit]
  /\ last = Nothing

NextFeed ==
  \/ IndexMount
  \/ OpenReportForm
  \/ \E formData \in ReviewForms : HandleSubmit(formData)
  \/ AdminMount(1)
  \/ AdminEffects(1)
  \/ \E id \in 1..MaxIncidents, newStatus \in {"approved", "rejected"} :
       UpdateIncidentStatus(1, id, newStatus)
  \/ \E id \in 1..MaxIncidents : DeleteIncident(1, id)

SpecFeed == InitFeed /\ [][NextFeed]_vars

\* SpecSecondCopy: moderation with the second copy of Admin. A reporter files
\* reports and one signed-in admin reviews and deletes them; mounting, the
\* effects of a signed-in admin and updateIncidentStatus are those of the first
\* copy.
InitSecondCopy == InitFeed

NextSecondCopy ==
  \/ OpenReportForm
  \/ \E formData \in ReviewForms : HandleSubmit(formData)
  \/ AdminMount(1)
  \/ AdminEffects(1)
  \/ \E id \in 1..MaxIncidents, newStatus \in {"approved", "rejected"} :
       UpdateIncidentStatus(1, id, newStatus)
  \/ \E id \in 1..MaxIncidents : DeleteIncidentSecondCopy(1, id)

SpecSecondCopy == InitSecondCopy /\ [][NextSecondCopy]_vars

\* SpecList: the dashboard's listing. The table already holds up to MaxRows
\* incidents, reviewed in different ways; one signed-in admin filters, searches,
\* sorts and pages through it.
SearchInputs == {Empty, <<"b", "I">>, <<" ">>, <<"_", "i">>}

StatusCycle == <<"pending", "approved", "rejected">>

\* The status of row i in the table of review pattern p.
ListedStatus(p, i) == IF p = 3 THEN "approved" ELSE StatusCycle[((i + p) % 3) + 1]

\* A table of n incidents filed two at a time at the times 1, 2, ... and then
\* reviewed in id order.
ListedTable(n, p) ==
  [i \in 1..n |->
     [id |-> i,
      user_id |-> IF i % 2 = 0 THEN "u1" ELSE "u2",
      type |-> IF i % 3 = 0 THEN "theft" ELSE "noise",
      title |-> IF i % 2 = 0 THEN <<"B", "i">> ELSE <<"a">>,
      description |-> <<"a">>,
      location |-> <<"5">>,
      status |-> ListedStatus(p, i),
      created_at |-> (i + 1) \div 2,
      updated_at |-> IF ListedStatus(p, i) = "pending"
                     THEN (i + 1) \div 2
                     ELSE n + Cardinality({j \in 1..i : ListedStatus(p, j) # "pending"})]]

InitList ==
  /\ \E n \in 0..MaxRows, p \in 0..3 :
       /\ store = ListedTable(n, p)
       /\ nextId = n + 1
       /\ now = n + Cardinality({j \in 1..n : ListedStatus(p, j) # "pending"})
  /\ index = IndexInit
  /\ admin = [s \in AdminSessions |->
                IF s = 1
                THEN [AdminSessionInit EXCEPT !.user = "admin", !.isAdmin = TRUE,
                                              !.isLoading = FALSE, !.mounted = TRUE,
                                              !.effects = TRUE]
                ELSE AdminSessionInit]
  /\ last = Nothing

NextList ==
  \/ AdminEffects(1)
  \/ \E key \in StatusTabs : SidebarStatus(1, key)
  \/ \E key \in StatusTabs : TabStatus(1, key)
  \/ \E value \in SearchInputs : SearchChange(1, value)
  \/ ToggleSort(1)
  \/ PrevPage(1)
  \/ NextPage(1)

SpecList == InitList /\ [][NextList]_vars

\* SpecPaged: one signed-in admin pages through a table of approved incidents
\* and deletes rows from it.
DeleteInputs == {1, 2, perPage + 1, MaxRows}

InitPaged ==
  /\ \E n \in 0..MaxRows :
       /\ store = ListedTable(n, 3)
       /\ nextId = n + 1
       /\ now = 2 * n
  /\ index = IndexInit
  /\ admin = [s \in AdminSessions |->
                IF s = 1
                THEN [AdminSessionInit EXCEPT !.user = "admin", !.isAdmin = TRUE,
                                              !.isLoading = FALSE, !.mounted = TRUE,
                                              !.effects = TRUE]
                ELSE AdminSessionInit]
  /\ last = Nothing

NextPaged ==
  \/ AdminEffects(1)
  \/ PrevPage(1)
  \/ NextPage(1)
  \/ \E id \in DeleteInputs : DeleteIncident(1, id)

SpecPaged == InitPaged /\ [][NextPaged]_vars

\* SpecOverlap: one signed-in admin changes the status tab while the fetches
\* of earlier renders are still awaiting their responses, which arrive in any
\* order.
Queries ==
  {[statusFilter |-> f, search |-> Empty, sortDesc |-> TRUE, page |-> 1] : f \in StatusTabs}

InitOverlap ==
  /\ \E n \in 0..MaxRows :
       /\ store = ListedTable(n, 0)
       /\ nextId = n + 1
       /\ now = n + Cardinality({j \in 1..n : ListedStatus(0, j) # "pending"})
  /\ index = IndexInit
  /\ admin = [s \in AdminSessions |->
                IF s = 1
                THEN [AdminSessionInit EXCEPT !.user = "admin", !.isAdmin = TRUE,
                                              !.isLoading = FALSE, !.mounted = TRUE,
                                              !.effects = TRUE]
                ELSE AdminSessionInit]
  /\ last = Nothing

NextOverlap ==
  \/ FetchIssue(1)
  \/ \E q \in Queries : FetchResponse(1, q)
  \/ \E key \in StatusTabs : TabStatus(1, key)

SpecOverlap == InitOverlap /\ [][NextOverlap]_vars

\* SpecCards: the public page is opened over a store of approved incidents of
\* the types the report form offers.
InitCards ==
  /\ \E n \in 1..MaxIncidents :
       \E types \in [1..n -> TypeOptions] :
         /\ store = [i \in 1..n |->
                       [id |-> i, user_id |-> "u1", type |-> types[i], title |-> <<"a">>,
                        description |-> <<"a">>, location |-> <<"5">>,
                        status |-> "approved", created_at |-> i, updated_at |-> n + i]]
         /\ nextId = n + 1
         /\ now = 2 * n
  /\ index = IndexInit
  /\ admin = [s \in AdminSessions |-> AdminSessionInit]
  /\ last = Nothing

NextCards == IndexMount

SpecCards == InitCards /\ [][NextCards]_vars

\* SpecLive: the sessions open the dashboard of the first copy and useAuth
\* resolves, in either order, with nothing done by the user afterwards. A
\* pending effect runs and useAuth resolves: both are weakly fair.
InitLive ==
  /\ \E n \in 0..MaxIncidents, p \in 0..3 :
       /\ store = ListedTable(n, p)
       /\ nextId = n + 1
       /\ now = n + Cardinality({j \in 1..n : ListedStatus(p, j) # "pending"})
  /\ index = IndexInit
  /\ admin = [s \in AdminSessions |-> AdminSessionInit]
  /\ last = Nothing

NextLive ==
  \E s \in AdminSessions :
    \/ AdminMount(s)
    \/ AuthResolves(s)
    \/ AdminEffects(s)

SpecLive ==
  /\ InitLive
  /\ [][NextLive]_vars
  /\ \A s \in AdminSessions : WF_vars(AuthResolves(s)) /\ WF_vars(AdminEffects(s))

\* SpecLiveSecondCopy: the same under the second copy of Admin.
NextLiveSecondCopy ==
  \E s \in AdminSessions :
    \/ AdminMount(s)
    \/ AuthResolvesSecondCopy(s)
    \/ AdminEffectsSecondCopy(s)

SpecLiveSecondCopy ==
  /\ InitLive
  /\ [][NextLiveSecondCopy]_vars
  /\ \A s \in AdminSessions :
       WF_vars(AuthResolvesSecondCopy(s)) /\ WF_vars(AdminEffectsSecondCopy(s))

\* ------------------------------------------------------------------ claims
Toasted(title) == \E k \in 1..Len(last.toast) : last.toast[k] = title

\* A setStatus, delete or bulkDelete handler of session s takes this step.
AdminMutation(s) ==
  \/ \E id \in 1..MaxIncidents, newStatus \in {"approved", "rejected"} :
       UpdateIncidentStatus(s, id, newStatus)
  \/ \E id \in 1..MaxIncidents : DeleteIncident(s, id)
  \/ DeleteApprovedPage(s)

\* C1: in every step, an incident whose status changes was pending and becomes
\* approved or rejected; no incident leaves approved or rejected.
C1_StatusOnlyLeavesPending ==
  [][\A id \in DOMAIN store \cap DOMAIN store' :
       store'[id].status # store[id].status
         => store[id].status = "pending" /\ store'[id].status \in {"approved", "rejected"}]_vars

\* C2: a setStatus request on an incident whose status in the store is not
\* pending is not reported as a success and leaves the status unchanged.
C2_NonPendingSetStatusFails ==
  [][\A s \in AdminSessions, id \in 1..MaxIncidents, newStatus \in {"approved", "rejected"} :
       (/\ UpdateIncidentStatus(s, id, newStatus)
        /\ last'.request = "update"
        /\ id \in DOMAIN store
        /\ store[id].status # "pending")
         => /\ store'[id].status = store[id].status
            /\ \A k \in 1..Len(last'.toast) : last'.toast[k] # "Success"]_vars

\* C3: a setStatus, delete or bulkDelete run by a session without the admin
\* capability sends no request and leaves the store unchanged.
C3_NonAdminSendsNoMutation ==
  [][\A s \in AdminSessions :
       (AdminMutation(s) /\ ~admin[s].isAdmin)
         => last'.request = None /\ store' = store]_vars

\* C4: every incident a step adds to the store is pending and carries the id of
\* the user signed in on the submitting page.
C4_SubmitCreatesPendingOwned ==
  [][\A id \in DOMAIN store' \ DOMAIN store :
       /\ index.user \in Users
       /\ store'[id].user_id = index.user
       /\ store'[id].status = "pending"]_vars

C4_Witness ==
  /\ last.request = "insert"
  /\ Toasted("Report submitted")
  /\ \E id \in DOMAIN store : store[id].user_id = "u2" /\ store[id].status = "pending"
  /\ \E id \in DOMAIN store : store[id].user_id = "u1"

\* C5: every item a public-feed fetch puts in the list is, at the time of the
\* query, an approved incident of the store.
C5_FeedOnlyApproved ==
  [][(last'.request = "select" /\ IndexMount) =>
       \A k \in 1..Len(index'.incidents) :
         /\ index'.incidents[k].id \in DOMAIN store
         /\ store[index'.incidents[k].id].status = "approved"]_vars

C5_Witness ==
  /\ Len(index.incidents) > 0
  /\ \E id \in DOMAIN store : store[id].status = "approved"
  /\ \E id \in DOMAIN store : store[id].status # "approved"
  /\ last.request = "select"

\* C6: a submit while nobody is signed in sends no insert and creates no
\* incident; with the form filled in, the page goes to /auth.
C6_UnauthenticatedSubmit ==
  [][\A formData \in FormInputs :
       (index.user = None /\ HandleSubmit(formData))
         => /\ store' = store
            /\ last'.request = None
            /\ ((/\ formData.type # ""
                 /\ \A field \in {"title", "description", "location"} :
                      formData[field] # <<>>)
                  => /\ index'.route = "/auth"
                     /\ last'.toast = <<"Authentication required">>)]_vars

C6_Witness ==
  /\ index.user = None
  /\ index.route = "/auth"
  /\ last.request = None
  /\ Toasted("Authentication required")

C8_EmptyFieldRejected ==
  [][/\ \A formData \in FormInputs :
          (/\ \/ formData.type = ""
              \/ Len(formData.title) = 0
              \/ Len(formData.description) = 0
              \/ Len(formData.location) = 0
           /\ HandleSubmit(formData))
            => /\ store' = store
               /\ last'.request = None
               /\ last'.sonner = "Please fill in all fields"
     /\ \A id \in DOMAIN store' :
          /\ store'[id].type # ""
          /\ Len(store'[id].title) > 0
          /\ Len(store'[id].description) > 0
          /\ Len(store'[id].location) > 0]_vars

C8_Witness ==
  /\ last = Outcome(None, <<>>, "Please fill in all fields")
  /\ index.showReportForm
  /\ DOMAIN store # {}

\* In this step nothing but status and updated_at of incident id changes, and
\* nothing of any other incident.
OnlyStatusChanged(id) ==
  /\ DOMAIN store' = DOMAIN store
  /\ \A j \in DOMAIN store :
       IF j = id
       THEN \A field \in {"id", "user_id", "created_at", "type", "title",
                          "description", "location"} :
              store'[j][field] = store[j][field]
       ELSE store'[j] = store[j]

\* C9: setStatus changes only status and updated_at of the incident it names and
\* nothing of any other incident; no step changes id, user_id or created_at of
\* an incident.
C9_SetStatusFrame ==
  [][\/ store' = store
     \/ /\ \A id \in DOMAIN store \cap DOMAIN store' :
             /\ store'[id].id = store[id].id
             /\ store'[id].user_id = store[id].user_id
             /\ store'[id].created_at = store[id].created_at
        /\ \A s \in AdminSessions, id \in 1..MaxIncidents,
              newStatus \in {"approved", "rejected"} :
             OnlyStatusChanged(id) \/ ~UpdateIncidentStatus(s, id, newStatus)]_vars

C9_Witness ==
  /\ last.request = "update"
  /\ Toasted("Success")
  /\ \E i \in DOMAIN store, j \in DOMAIN store :
       /\ i # j
       /\ store[i].status = "approved"
       /\ store[i].updated_at > store[i].created_at
       /\ store[j].status = "pending"
       /\ store[j].updated_at = store[j].created_at

\* The rows of full at the 0-based positions [from, to).
Slice(full, from, to) ==
  [k \in 1..((IF to < Len(full) THEN to ELSE Len(full)) - from) |-> full[from + k]]

\* The pages 1..n of a query, one after the other.
RECURSIVE PagesUpTo(_, _, _, _, _)
PagesUpTo(n, tbl, statusFilter, search, sortDesc) ==
  IF n = 0 THEN <<>>
  ELSE PagesUpTo(n - 1, tbl, statusFilter, search, sortDesc)
         \o AdminQuery(tbl, statusFilter, search, sortDesc, n).data

\* C10: once a fetch of the dashboard has succeeded, the rows displayed are the
\* slice [(page-1)*perPage, page*perPage) of the full filtered and sorted
\* result; for that filter, search and sort every page k is such a slice of at
\* most perPage rows, and pages 1..totalPages one after the other are the full
\* result, every row exactly once.
C10_PagesAreSlices ==
  (last = Outcome("select", <<>>, None) /\ admin[1].mounted /\ ~admin[1].effects)
    => LET a == admin[1]
           full == FullResult(store, a.statusFilter, a.search, a.sortDesc)
           pages == TotalPages(Len(full))
       IN /\ a.incidents = Slice(full, (a.page - 1) * perPage, a.page * perPage)
          /\ a.totalCount = Len(full)
          /\ \A k \in 1..pages :
               LET q == AdminQuery(store, a.statusFilter, a.search, a.sortDesc, k)
               IN /\ q.data = Slice(full, (k - 1) * perPage, k * perPage)
                  /\ Len(q.data) <= perPage
          /\ PagesUpTo(pages, store, a.statusFilter, a.search, a.sortDesc) = full
          /\ Cardinality({full[k].id : k \in 1..Len(full)}) = Len(full)

C10_Witness ==
  /\ last = Outcome("select", <<>>, None)
  /\ ~admin[1].effects
  /\ admin[1].page = 3
  /\ Len(admin[1].incidents) = 1
  /\ admin[1].totalCount = 2 * perPage + 1
  /\ admin[1].statusFilter = "approved"
  /\ ~admin[1].sortDesc
  /\ admin[1].incidents[1].id = 2 * perPage + 1

\* ceil(n / d) for n >= 0, d > 0.
Ceil(n, d) == IF n % d = 0 THEN n \div d ELSE n \div d + 1

\* A fetch of session 1 has succeeded and its state is what is rendered.
Listed == last = Outcome("select", <<>>, None) /\ admin[1].mounted /\ ~admin[1].effects

\* C11: once a fetch has succeeded, totalCount is the size of the full filtered
\* set and the page count of either copy of the dashboard is
\* ceil(totalCount / perPage), and 1 when the filtered set is empty.
C11_TotalPagesAtLeastOne ==
  Listed =>
    LET a == admin[1]
        n == Cardinality(Filtered(store, a.statusFilter, a.search))
        expected == IF Ceil(n, perPage) > 1 THEN Ceil(n, perPage) ELSE 1
    IN /\ a.totalCount = n
       /\ TotalPages(a.totalCount) = expected
       /\ TotalPagesSecondCopy(a.totalCount) = expected

\* The same for the first copy of the dashboard alone.
C11_FirstCopy ==
  Listed =>
    LET a == admin[1]
        n == Cardinality(Filtered(store, a.statusFilter, a.search))
    IN /\ a.totalCount = n
       /\ TotalPages(a.totalCount) = (IF Ceil(n, perPage) > 1 THEN Ceil(n, perPage) ELSE 1)

\* The ids of the rows on the pages 1..totalPages of session 1's current query.
ListedIds ==
  LET a == admin[1]
      all == PagesUpTo(TotalPages(a.totalCount), store, a.statusFilter, a.search, a.sortDesc)
  IN {all[k].id : k \in 1..Len(all)}

\* C12: once a fetch has succeeded, every row displayed has the status of the
\* filter unless the filter is "all"; with no search text, the pages of the
\* query hold exactly the incidents of that status, and all incidents of every
\* status when the filter is "all".
C12_StatusFilterExact ==
  Listed =>
    LET a == admin[1]
    IN /\ \A k \in 1..Len(a.incidents) :
            a.statusFilter = "all" \/ a.incidents[k].status = a.statusFilter
       /\ Trim(a.search) = <<>> =>
            /\ a.statusFilter = "all" => ListedIds = DOMAIN store
            /\ a.statusFilter # "all" =>
                 ListedIds = {i \in DOMAIN store : store[i].status = a.statusFilter}

C12_Witness ==
  /\ Listed
  /\ admin[1].statusFilter = "rejected"
  /\ admin[1].search = <<>>
  /\ Len(admin[1].incidents) > 1
  /\ admin[1].totalCount < Cardinality(DOMAIN store)
  /\ \E i \in DOMAIN store : store[i].status = "pending"
  /\ \E i \in DOMAIN store : store[i].status = "approved"

\* needle occurs in text as a substring, ignoring case.
Contains(text, needle) ==
  \E k \in 0..(Len(text) - Len(needle)) :
    \A j \in 1..Len(needle) : LowerChar(text[k + j]) = LowerChar(needle[j])

\* The incidents within the status filter of which title, description or
\* location contains the text.
Containing(statusFilter, text) ==
  {i \in DOMAIN store :
     /\ statusFilter = "all" \/ store[i].status = statusFilter
     /\ \/ Contains(store[i].title, text)
        \/ Contains(store[i].description, text)
        \/ Contains(store[i].location, text)}

\* C13: once a fetch with a search text (blanks at its ends aside) has
\* succeeded, the pages of the query hold exactly the incidents within the
\* status filter of which title, description or location contains the text,
\* ignoring case.
C13_SearchIsSubstring ==
  (Listed /\ Trim(admin[1].search) # <<>>)
    => ListedIds = Containing(admin[1].statusFilter, Trim(admin[1].search))

\* The same for a search text without the pattern characters "%" and "_".
C13_PlainText ==
  (/\ Listed
   /\ Trim(admin[1].search) # <<>>
   /\ \A k \in 1..Len(admin[1].search) : admin[1].search[k] \notin {"%", "_"})
    => ListedIds = Containing(admin[1].statusFilter, Trim(admin[1].search))

C13_PlainTextWitness ==
  /\ Listed
  /\ admin[1].search = <<"b", "I">>
  /\ Len(admin[1].incidents) > 1
  /\ admin[1].totalCount < Cardinality(DOMAIN store)

\* The ids of the rows of a list.
IdsOf(rows) == {rows[k].id : k \in 1..Len(rows)}

\* C14: a delete reported as done leaves no row of that id in the store; an id
\* that has been assigned and has no row never has one again; and every result
\* a list or feed fetch hands to a page holds only ids that have a row in the
\* store at that moment.
C14_DeleteIsPermanent ==
  [][/\ \A id \in 1..(nextId - 1) : id \notin DOMAIN store => id \notin DOMAIN store'
     /\ \A id \in 1..MaxIncidents :
          (last'.request = "delete" /\ last'.toast # <<>> /\ last'.toast[1] = "Deleted"
             /\ DeleteIncident(1, id))
            => id \notin DOMAIN store'
     /\ (last'.request \in {"select", "update", "delete"}
           /\ admin'[1].incidents # admin[1].incidents)
          => IdsOf(admin'[1].incidents) \subseteq DOMAIN store'
     /\ (last'.request = "select" /\ IndexMount)
          => IdsOf(index'.incidents) \subseteq DOMAIN store']_vars

C14_Witness ==
  /\ 1 \notin DOMAIN store
  /\ 2 \in DOMAIN store
  /\ nextId = 3
  /\ last = Outcome("select", <<>>, None)
  /\ IdsOf(admin[1].incidents) = {2}
  /\ ~index.loadingIncidents

\* C15: a setStatus or delete request for an id that has no row in the store is
\* not reported as done.
C15_MissingIdNotReportedDone ==
  [][\A s \in AdminSessions, id \in 1..MaxIncidents :
       id \notin DOMAIN store =>
         /\ \A newStatus \in {"approved", "rejected"} :
              (last'.request = "update" /\ UpdateIncidentStatus(s, id, newStatus))
                => \A k \in 1..Len(last'.toast) : last'.toast[k] # "Success"
         /\ (last'.request = "delete" /\ DeleteIncident(s, id))
              => \A k \in 1..Len(last'.toast) : last'.toast[k] # "Deleted"]_vars

\* C16: a bulk delete reported as done removes every row of its id set, leaves
\* the other rows, and says it removed as many incidents as rows left the
\* store.
C16_BulkDeleteCountsRemoved ==
  [][\A s \in AdminSessions :
       (last'.request = "delete" /\ last'.toast # <<>> /\ last'.toast[1] = "Deleted"
          /\ DeleteApprovedPage(s))
         => /\ DOMAIN store' = DOMAIN store \ ApprovedOnPage(s)
            /\ \A i \in DOMAIN store' : store'[i] = store[i]
            /\ last'.removed = Cardinality(DOMAIN store \ DOMAIN store')]_vars

\* The same without the count: the rows of the id set are removed, ids without
\* a row are passed over, and a list fetched in the same run holds none of them.
C16_BulkDeleteRemoves ==
  [][\A s \in AdminSessions :
       (last'.request = "delete" /\ last'.toast # <<>> /\ last'.toast[1] = "Deleted"
          /\ DeleteApprovedPage(s))
         => /\ DOMAIN store' = DOMAIN store \ ApprovedOnPage(s)
            /\ \A i \in DOMAIN store' : store'[i] = store[i]
            /\ last'.toast = <<"Deleted">>
                 => IdsOf(admin'[s].incidents) \cap ApprovedOnPage(s) = {}]_vars

\* C17: a bulk delete over the empty id set sends no request, leaves the store
\* and every displayed list as they are, raises no toast and says it removed
\* nothing.
C17_EmptyBulkDeleteIsNoOp ==
  [][\A s \in AdminSessions :
       (ApprovedOnPage(s) = {} /\ DeleteApprovedPage(s))
         => /\ last' = Nothing
            /\ last'.removed = 0
            /\ store' = store
            /\ admin' = admin]_vars

C17_Witness ==
  /\ last = Nothing
  /\ admin[1].isAdmin
  /\ RowsShown(1) # {}
  /\ ApprovedOnPage(1) = {}
  /\ \E i \in DOMAIN store : store[i].status = "approved"

Mutations == {"insert", "update", "delete"}

\* C18: a handler run whose insert, update or delete the store answers with an
\* error leaves the store as it was and raises the toast "Error" and no other;
\* and the steps the pages take on their own, the effects of the dashboard,
\* send no insert, update or delete.
C18_FailedMutationChangesNothing ==
  [][/\ last'.error =>
          /\ last'.request \in Mutations
          /\ store' = store /\ nextId' = nextId /\ now' = now
          /\ last'.toast = <<"Error">>
     /\ \A s \in AdminSessions :
          (last'.request \in {"select", None} /\ admin'[s] # admin[s] /\ AdminEffects(s))
            => store' = store
     /\ (store' # store \/ (last' # last /\ last'.request \in Mutations))
          => \/ \E formData \in ReviewForms : HandleSubmit(formData)
             \/ \E s \in AdminSessions : AdminMutation(s)]_vars

C18_Witness ==
  /\ last.error
  /\ last.request = "delete"
  /\ last.toast = <<"Error">>
  /\ \E i \in DOMAIN store : store[i].status = "approved"
  /\ \E i \in DOMAIN store : store[i].status = "pending"

\* C19: every setStatus request the store answers without error is applied,
\* whatever the status of the incident was: after the step the incident has the
\* status of that request and a later updated_at, so of the requests of two
\* sessions on one incident the one applied last decides the status.
C19_LastWriterWins ==
  [][\A s \in AdminSessions, id \in 1..MaxIncidents, newStatus \in {"approved", "rejected"} :
       (/\ last'.request = "update"
        /\ ~last'.error
        /\ id \in DOMAIN store
        /\ UpdateIncidentStatus(s, id, newStatus))
         => /\ store'[id].status = newStatus
            /\ store'[id].updated_at > store[id].updated_at]_vars

\* Session 1 approved incident 1 and lists it as approved; session 2 has
\* rejected it since from its own list.
C19_Witness ==
  /\ last.request = "update"
  /\ ~last.error
  /\ 1 \in DOMAIN store
  /\ store[1].status = "rejected"
  /\ store[1].updated_at = store[1].created_at + 2
  /\ \E r \in RowsShown(1) :
       r.id = 1 /\ r.status = "approved" /\ r.updated_at = store[1].created_at + 1

\* Session s is signed out or lacks the admin capability.
NotAdmin(s) == ~admin[s].isLoading /\ (admin[s].user = None \/ ~admin[s].isAdmin)

\* C20: the effects of a dashboard whose user is absent or lacks the admin
\* capability send no query and leave the dashboard; and no step hands a
\* session without the capability a new result of the dashboard's unrestricted
\* query.
C20_NoListingForNonAdmin ==
  [][\A s \in AdminSessions :
       /\ (NotAdmin(s) /\ admin'[s] # admin[s] /\ AdminEffects(s))
            => /\ ~admin'[s].mounted
               /\ admin'[s].incidents = <<>>
               /\ last'.request = None
       /\ (~admin[s].isAdmin /\ admin'[s].incidents # admin[s].incidents)
            => admin'[s].incidents = <<>>]_vars

\* The first part alone: what the effects do for a session that is not admin.
C20_EffectsTurnAway ==
  [][\A s \in AdminSessions :
       (NotAdmin(s) /\ admin'[s] # admin[s] /\ AdminEffects(s))
         => /\ ~admin'[s].mounted
            /\ admin'[s].incidents = <<>>
            /\ last'.request = None]_vars

\* The feed fetch of this step succeeded.
FeedFetched == IndexMount /\ last'.request = "select" /\ ~last'.error

\* A submitted incident is pending; a successful fetch of the dashboard lists
\* every pending incident as pending; a successful fetch of the public feed
\* lists exactly the approved incidents; a setStatus(id, approved) answered
\* without error leaves the incident approved with a later updated_at.
SubmitToFeed ==
  /\ \A id \in DOMAIN store' \ DOMAIN store : store'[id].status = "pending"
  /\ (last'.request = "select" /\ last'.toast = <<>> /\ AdminEffects(1))
       => \A id \in DOMAIN store :
            store[id].status = "pending"
              => \E r \in RowsShown(1)' : r.id = id /\ r.status = "pending"
  /\ FeedFetched => IdsOf(index'.incidents) = {id \in DOMAIN store : store[id].status = "approved"}
  /\ \A id \in DOMAIN store :
       (last'.request = "update" /\ ~last'.error /\ UpdateIncidentStatus(1, id, "approved"))
         => /\ store'[id].status = "approved"
            /\ store'[id].updated_at # store[id].updated_at

\* C21: a submitted incident is pending, listed as pending by the dashboard and
\* absent from the public feed; once approved it is approved with a changed
\* updated_at; and an approved incident stays approved until it is deleted, so
\* every later fetch of the public feed lists it.
C21_SubmittedThenApprovedStaysInFeed ==
  [][/\ SubmitToFeed
     /\ \A id \in DOMAIN store :
          store[id].status = "approved"
            => id \notin DOMAIN store' \/ store'[id].status = "approved"]_vars

\* The same without the last part.
C21_SubmitToFeed == [][SubmitToFeed]_vars

C21_FeedWitness ==
  /\ last = Outcome("select", <<>>, None)
  /\ \E id \in DOMAIN store : store[id].status = "pending" /\ store[id].user_id = "u1"
  /\ \E k \in 1..Len(index.incidents) :
       /\ index.incidents[k].id \in DOMAIN store
       /\ store[index.incidents[k].id].status = "approved"
  /\ Len(index.incidents) = 1

\* C22: every incident a step removes from the store was displayed with
\* status approved in an admin session; an incident displayed as pending or
\* rejected is not removed.
C22_OnlyDisplayedApprovedDeleted ==
  [][\A id \in DOMAIN store \ DOMAIN store' :
       \E s \in AdminSessions :
         \E r \in Displayed(s) : r.id = id /\ r.status = "approved"]_vars

\* C23: once a fetch has succeeded, the count shown for each status, on the
\* overview cards and beside the tabs, is the number of incidents of that
\* status in the full filtered set, so the three counts add up to the total
\* shown.
C23_CountsAreOfTheFilteredSet ==
  Listed =>
    LET a == admin[1]
        matching == Filtered(store, a.statusFilter, a.search)
    IN /\ \A status \in Statuses :
            /\ Stats(a)[status] = Cardinality({i \in matching : store[i].status = status})
            /\ TabCount(a, status) = Stats(a)[status]
       /\ Stats(a).pending + Stats(a).approved + Stats(a).rejected = Stats(a).total

\* A step in which a delete request succeeded and removed an incident.
DeleteSucceeded == store' # store /\ last'.request = "delete" /\ ~last'.error

\* C24: when deleteIncident succeeds on the only row displayed on a page after
\* the first, the page index goes down by one and the fetch of that page is
\* pending, the list being left as it was until then; when any other
\* deleteIncident succeeds, the page index is unchanged and the current page has
\* been fetched again from the store without the deleted incident.
C24_DeleteOfLastRowStepsBack ==
  [][DeleteSucceeded =>
       LET a == admin[1]
       IN IF Len(a.incidents) = 1 /\ a.page > 1
          THEN /\ admin'[1] = [a EXCEPT !.page = a.page - 1, !.effects = TRUE]
          ELSE /\ admin'[1].page = a.page
               /\ admin'[1].effects = a.effects
               /\ \/ /\ admin'[1].incidents =
                          AdminQuery(store', a.statusFilter, a.search, a.sortDesc, a.page).data
                     /\ admin'[1].totalCount =
                          AdminQuery(store', a.statusFilter, a.search, a.sortDesc, a.page).count
                     /\ ~Toasted("Error")'
                  \/ /\ admin'[1].incidents = a.incidents
                     /\ admin'[1].totalCount = a.totalCount
                     /\ Toasted("Error")']_vars

\* The fetch the page change issues is the fetch of the page stepped back to.
C24_FetchOfPreviousPage ==
  [][admin[1].effects /\ ~admin'[1].effects /\ last'.request = "select" /\ last'.toast = <<>>
       => /\ admin'[1].page = admin[1].page
          /\ admin'[1].incidents =
               AdminQuery(store, admin[1].statusFilter, admin[1].search,
                          admin[1].sortDesc, admin[1].page).data]_vars

\* The only row of page 3 has been deleted and the admin is back on page 2.
C24_Witness ==
  /\ last = Outcome("delete", <<"Deleted">>, None)
  /\ admin[1].page = 2
  /\ admin[1].effects
  /\ Len(admin[1].incidents) = 1
  /\ Cardinality(DOMAIN store) = 2 * perPage

\* A row of a page that keeps other rows has been deleted and the page fetched again.
C24_SamePageWitness ==
  /\ last = Outcome("delete", <<"Deleted">>, None)
  /\ admin[1].page = 2
  /\ ~admin[1].effects
  /\ Len(admin[1].incidents) = perPage - 1

\* C25: once the fetches issued by the admin's actions have completed, the
\* page index lies between 1 and the page count, and the page displayed is not
\* empty while incidents match the filter and the search.
C25_PageWithinRange ==
  Listed =>
    LET a == admin[1]
    IN /\ 1 <= a.page
       /\ a.page <= TotalPages(a.totalCount)
       /\ Filtered(store, a.statusFilter, a.search) # {} => a.incidents # <<>>

\* C26: when the last response awaited has been processed and it was
\* successful, no fetch being pending, the rows and the count displayed are
\* those of the query of the current filter, search, sort and page.
C26_DisplayIsOfCurrentQuery ==
  [][/\ admin[1].inflight # {}
     /\ admin'[1].inflight = {}
     /\ ~admin'[1].effects
     /\ last' = Outcome("select", <<>>, None)
     => LET a == admin'[1]
            r == AdminQuery(store', a.statusFilter, a.search, a.sortDesc, a.page)
        IN a.incidents = r.data /\ a.totalCount = r.count]_vars

\* C27: from the moment the dashboard is open and useAuth has resolved to an
\* admin, the dashboard eventually is not loading, with no action of the user;
\* loading is true from the first render until a fetch has been issued and has
\* returned, so the list fetch has been issued by then.
C27_FetchesAndLeavesLoading ==
  \A s \in AdminSessions :
    (admin[s].mounted /\ ~admin[s].isLoading /\ admin[s].isAdmin) ~> ~admin[s].loading

\* C28: a submit of the report form shows "Incident reported successfully" or
\* closes the form only when it has inserted the incident; a submit with nobody
\* signed in, or one whose insert failed, does neither.
C28_SuccessOnlyWhenInserted ==
  [][\A formData \in FormInputs :
       (/\ HandleSubmit(formData)
        /\ \/ last'.sonner = "Incident reported successfully"
           \/ ~index'.showReportForm)
         => /\ DOMAIN store' # DOMAIN store
            /\ index.user # None
            /\ ~last'.error]_vars

\* C29: every incident of the public feed whose type is one the report form
\* offers is rendered by IncidentCard, its type having a typeConfig entry.
C29_EveryFeedItemRenders ==
  \A k \in 1..Len(index.incidents) :
    index.incidents[k].type \in TypeOptions
      => /\ index.incidents[k].type \in DOMAIN typeConfig
         /\ IncidentCard(index.incidents[k]).error = None

\* C30: a run of updateIncidentStatus, deleteIncident or Delete Approved
\* (page) whose confirm dialog is declined sends no request and raises no
\* toast, and leaves the store and every session's list, page index, filter,
\* search and sort as they were.
C30_DeclinedConfirmChangesNothing ==
  [][\/ /\ last'.request = None
        /\ last'.toast = <<>>
        /\ store' = store
        /\ admin' = admin
     \/ \A s \in AdminSessions :
          /\ \A id \in 1..MaxIncidents :
               /\ ~DeleteIncidentAnswered(s, id, FALSE)
               /\ \A newStatus \in {"approved", "rejected"} :
                    ~UpdateIncidentStatusAnswered(s, id, newStatus, FALSE)
          /\ \A confirmedPage \in BOOLEAN, confirmed \in BOOLEAN :
               (~confirmedPage \/ ~confirmed)
                 => ~DeleteApprovedPageAnswered(s, confirmedPage, confirmed)]_vars

\* A dialog has been declined in a session that displays a pending and an
\* approved incident.
C30_Witness ==
  /\ last = Nothing
  /\ admin[1].isAdmin
  /\ ~admin[1].effects
  /\ \E r \in RowsShown(1) : r.status = "pending"
  /\ \E r \in RowsShown(1) : r.status = "approved"

====
